---------------------------- MODULE Spec2Model ----------------------------
(***************************************************************************)
(* A model of tune2youtube.py: the command-line conversion of an audio     *)
(* file plus a cover image into a video, by one ffprobe invocation         *)
(* followed by one ffmpeg invocation.                                      *)
(*                                                                         *)
(* Numbers.  The program computes the fit in double-precision floats; the  *)
(* model computes it in exact rationals, a value n/d being the pair        *)
(* <<n, d>> with d > 0.  For the small integers of the model the float     *)
(* comparisons of the source agree with the exact ones.                    *)
(*                                                                         *)
(* Text.  A path is a sequence of one-character strings, so that           *)
(* os.path.basename, os.path.splitext and str.endswith are computed on the *)
(* characters as the library does (POSIX separator "/").  None and the     *)
(* empty string, which `not output_path` does not tell apart, are both     *)
(* the empty sequence.  The filter string is the record of the numbers     *)
(* its %d fields print.                                                    *)
(***************************************************************************)
EXTENDS Integers, Sequences, FiniteSets

VARIABLES
    procs,          \* the conversions (operating-system processes) running
    pc,             \* per process: start, probing, compose, composing, returned, done, failed
    cover_path,     \* argv: -c
    audio_path,     \* argv: -s
    arg_output,     \* argv: -o (None when not given)
    output_path,    \* process's output_path: the argument, then the resolved path
    width,          \* argv: -w
    height,         \* argv: -h
    cover_file,     \* what ffprobe prints for the process's cover file
    probe_rc,       \* exit status of the ffprobe child (-1: not yet exited)
    geom,           \* locals of get_cover_filter_string before rounding
    filter_string,  \* result of get_cover_filter_string
    ffmpeg_args,    \* argument list handed to ffmpeg
    compose_rc,     \* exit status of the ffmpeg child (-1: not yet exited)
    calls,          \* per process: the external tools spawned, in order
    err,            \* per process: the exception that ended the run ("" if none)
    stdout,         \* per process: the lines printed
    r_pc,           \* scaling_round called alone: "idle", "call" or "done"
    r_val,          \* its val, a rational
    r_factor,       \* its factor
    r_max,          \* its max_value
    r_result        \* its return value

vars == <<procs, pc, cover_path, audio_path, arg_output, output_path, width, height,
          cover_file, probe_rc, geom, filter_string, ffmpeg_args, compose_rc,
          calls, err, stdout, r_pc, r_val, r_factor, r_max, r_result>>

procVars == <<procs, pc, cover_path, audio_path, arg_output, output_path, width, height,
              cover_file, probe_rc, geom, filter_string, ffmpeg_args,
              compose_rc, calls, err, stdout>>

roundVars == <<r_pc, r_val, r_factor, r_max, r_result>>

-----------------------------------------------------------------------------
(* Bounds of the model *)

MaxCanvas == 18     \* canvas sides range over 1..MaxCanvas
MaxImage == 4       \* probed image sides range over 1..MaxImage
MaxNum == 40        \* scaling_round alone: numerator of val
MaxDen == 2         \* scaling_round alone: denominator of val
MaxFactor == 5      \* scaling_round alone: factor
MaxMaxValue == 20   \* scaling_round alone: max_value

(* Program constants *)

DefaultFactor == 16     \* scaling_round's default factor
DefaultWidth == 1280    \* -w default
DefaultHeight == 720    \* -h default

-----------------------------------------------------------------------------
(* Arithmetic helpers *)

Abs(x) == IF x < 0 THEN -x ELSE x

\* int(x) of a quotient a/b, b > 0: truncation toward zero
TruncDiv(a, b) == IF a >= 0 THEN a \div b ELSE -((-a) \div b)

\* n/d <= k, for d > 0
RatLeqInt(r, k) == r[1] <= k * r[2]


\* a/b > c/d, for b, d > 0
RatGt(x, y) == x[1] * y[2] > y[1] * x[2]

-----------------------------------------------------------------------------
(* scaling_round (lines 41-59).  val is a rational >= 0; max_value = 0 is  *)
(* "no maximum" (the truth test `max_value and ...`).                      *)

\* the same with the tie between vmin and vmax going to vmin
scaling_round_tie_low(val, factor, max_value) ==
    LET vsc == TruncDiv(val[1], val[2] * factor)
        vmin == vsc * factor
        vmax == (vsc + 1) * factor
    IN  IF \/ (max_value # 0 /\ vmax > max_value)
           \/ Abs(val[1] - vmin * val[2]) <= Abs(val[1] - vmax * val[2])
        THEN vmin
        ELSE vmax

scaling_round(val, factor, max_value) ==
    LET vsc == TruncDiv(val[1], val[2] * factor)
        vmin == vsc * factor
        vmax == (vsc + 1) * factor
    IN  IF \/ (max_value # 0 /\ vmax > max_value)
           \/ Abs(val[1] - vmin * val[2]) < Abs(val[1] - vmax * val[2])
        THEN vmin
        ELSE vmax

-----------------------------------------------------------------------------
(* Paths (process, lines 111-113 and 130) *)

\* str.rfind(c) + 1: the last index of c in s, 0 when absent
RFind(s, c) ==
    LET hits == {i \in 1..Len(s) : s[i] = c}
    IN  IF hits = {} THEN 0 ELSE CHOOSE i \in hits : \A j \in hits : j <= i

\* os.path.basename (posixpath): what follows the last "/"
basename(p) == SubSeq(p, RFind(p, "/") + 1, Len(p))

\* os.path.splitext(p)[0] (genericpath._splitext): cut at the last dot,
\* unless only dots lie between the start of the file name and that dot
splitext_root(p) ==
    LET sep == RFind(p, "/")
        dot == RFind(p, ".")
    IN  IF dot > sep /\ \E i \in (sep + 1)..(dot - 1) : p[i] # "."
        THEN SubSeq(p, 1, dot - 1)
        ELSE p

\* str.endswith
endswith(s, suffix) ==
    /\ Len(s) >= Len(suffix)
    /\ SubSeq(s, Len(s) - Len(suffix) + 1, Len(s)) = suffix

DotMp4 == <<".", "m", "p", "4">>
DotMp3 == <<".", "m", "p", "3">>

\* the same without os.path.basename: the directory is kept
default_output_path_keepdir(audio) == splitext_root(audio) \o DotMp4

\* lines 112-113: "%s.mp4" % splitext(basename(audio_path))[0]
default_output_path(audio) == splitext_root(basename(audio)) \o DotMp4

\* line 130
needs_transcode(audio) == ~endswith(audio, DotMp3)

-----------------------------------------------------------------------------
(* get_cover_filter_string, the geometry (lines 78-96) *)

\* the branch condition with the aspect comparison dropped
fit_to_width_any_landscape(cw, ch, vw, vh) == cw >= ch

\* the branch condition with >= between the aspects
fit_to_width_geq(cw, ch, vw, vh) ==
    cw >= ch /\ ~RatGt(<<vw, vh>>, <<cw, ch>>)

\* line 80: cover_width >= cover_height and cover_aspect > video_aspect
fit_to_width(cw, ch, vw, vh) ==
    cw >= ch /\ RatGt(<<cw, ch>>, <<vw, vh>>)

NoGeom == [branch |-> "none", image_width |-> <<0, 1>>, image_height |-> <<0, 1>>]

\* lines 78-85: the unrounded image_width and image_height
geometry(cw, ch, vw, vh) ==
    IF fit_to_width(cw, ch, vw, vh)
    THEN [branch |-> "width",
          image_width |-> <<vw, 1>>,
          image_height |-> <<vw * ch, cw>>]     \* image_width / cover_aspect
    ELSE [branch |-> "height",
          image_width |-> <<vh * cw, ch>>,      \* image_height * cover_aspect
          image_height |-> <<vh, 1>>]

\* lines 86-87
asserts_pass(g, vw, vh) ==
    /\ RatLeqInt(g.image_height, vh)
    /\ RatLeqInt(g.image_width, vw)

NoFilter == [scale |-> <<0, 0>>, pad |-> <<0, 0, 0, 0>>]

\* lines 88-96: "scale=%d:%d,pad=%d:%d:%d:%d"
filter_of(g, vw, vh) ==
    LET iw == scaling_round(g.image_width, DefaultFactor, 0)
        ih == scaling_round(g.image_height, DefaultFactor, 0)
    IN  [scale |-> <<iw, ih>>,
         pad |-> <<vw, vh, TruncDiv(vw - iw, 2), TruncDiv(vh - ih, 2)>>]

-----------------------------------------------------------------------------
(* The inputs: argv, and the cover file as ffprobe reports it *)

Procs == {1, 2}

Cover1 == <<"c", ".", "p", "n", "g">>
Cover2 == <<"d", "/", "c", ".", "p", "n", "g">>
CoverPaths == {Cover1, Cover2}

\* the audio files on disk: directory, name without its extension, extension
AudioFiles ==
    { [dir |-> <<"a", "/">>, stem |-> <<"s">>, ext |-> <<".", "w", "a", "v">>],
      [dir |-> <<"b", "/">>, stem |-> <<"s">>, ext |-> <<".", "w", "a", "v">>],
      [dir |-> <<>>, stem |-> <<"s">>, ext |-> <<".", "m", "p", "3">>],
      [dir |-> <<>>, stem |-> <<"t">>, ext |-> <<".", "m", "p", "3">>],
      [dir |-> <<>>, stem |-> <<"s", ".", "x">>, ext |-> <<".", "w", "a", "v">>],
      [dir |-> <<"a", ".", "b", "/">>, stem |-> <<".", "h">>, ext |-> <<>>] }

PathOf(f) == f.dir \o f.stem \o f.ext

AudioPaths == {PathOf(f) : f \in AudioFiles}

None == <<>>
OutputOptions == {None, <<"o", ".", "m", "p", "4">>}

ExitCodes == {0, 1}

\* a field of the first stream entry
FAbsent == [t |-> "absent", v |-> 0]
FNonNumeric == [t |-> "nonnumeric", v |-> 0]
FNumber(n) == [t |-> "number", v |-> n]
Fields == {FAbsent, FNonNumeric} \cup {FNumber(n) : n \in 1..MaxImage}

\* what ffprobe writes to its standard output
ProbeOutputs ==
    {[kind |-> k, width |-> FAbsent, height |-> FAbsent] :
        k \in {"unparseable", "no_streams_key", "no_stream"}}
    \cup {[kind |-> "streams", width |-> w, height |-> h] : w \in Fields, h \in Fields}

\* the covers of the parallel runs: unreadable, or square album art
ParProbeOutputs ==
    {o \in ProbeOutputs :
        \/ o.kind = "unparseable"
        \/ o.kind = "streams" /\ o.width.t = "number" /\ o.height = o.width}

\* lines 38 and 75-77: the exception json.loads, ["streams"][0],
\* float(...["width"]) or float(...["height"]) raises, "" when none does
probe_error(out) ==
    CASE out.kind = "unparseable" -> "ValueError"
      [] out.kind = "no_streams_key" -> "KeyError"
      [] out.kind = "no_stream" -> "IndexError"
      [] OTHER ->
            IF out.width.t = "absent" THEN "KeyError"
            ELSE IF out.width.t = "nonnumeric" THEN "ValueError"
            ELSE IF out.height.t = "absent" THEN "KeyError"
            ELSE IF out.height.t = "nonnumeric" THEN "ValueError"
            ELSE ""

NoArgs == [cover |-> <<>>, audio |-> <<>>, size |-> <<0, 0>>,
           filter |-> NoFilter, acodec |-> "", output |-> <<>>]

\* lines 117-145
build_ffmpeg_args(cover, audio, w, h, filter, output) ==
    [cover |-> cover, audio |-> audio, size |-> <<w, h>>, filter |-> filter,
     acodec |-> IF needs_transcode(audio) THEN "aac" ELSE "copy",
     output |-> output]

\* subprocess.call in place of check_call: the exit status is not looked at
check_call_ok_ignored(rc) == TRUE

\* line 146: subprocess.check_call raises CalledProcessError unless rc = 0
check_call_ok(rc) == rc = 0

-----------------------------------------------------------------------------
(* The run of one conversion: command_line -> process *)

Fail(p, e) ==
    /\ pc' = [pc EXCEPT ![p] = "failed"]
    /\ err' = [err EXCEPT ![p] = e]

\* lines 194-195, 111-115, 75, 27-37: resolve the output path, spawn ffprobe
ProbeCall(p) ==
    /\ pc[p] = "start"
    /\ output_path' = [output_path EXCEPT ![p] =
            IF output_path[p] = None THEN default_output_path(audio_path[p]) ELSE @]
    /\ calls' = [calls EXCEPT ![p] = Append(@, "ffprobe")]
    /\ pc' = [pc EXCEPT ![p] = "probing"]
    /\ UNCHANGED <<procs, cover_path, audio_path, arg_output, width, height, cover_file,
                   probe_rc, geom, filter_string, ffmpeg_args, compose_rc,
                   err, stdout>>
    /\ UNCHANGED roundVars

\* lines 37-38, 75-96: ffprobe exits; parse, fit, assert, build the filter
ProbeReturn(p) ==
    /\ pc[p] = "probing"
    /\ \E rc \in ExitCodes : probe_rc' = [probe_rc EXCEPT ![p] = rc]
    /\ LET out == cover_file[p]
           e == probe_error(out)
           g == geometry(out.width.v, out.height.v, width[p], height[p])
       IN  IF e # ""
           THEN /\ Fail(p, e)
                /\ UNCHANGED <<geom, filter_string>>
           ELSE /\ geom' = [geom EXCEPT ![p] = g]
                /\ IF asserts_pass(g, width[p], height[p])
                   THEN /\ filter_string' = [filter_string EXCEPT ![p] =
                                filter_of(g, width[p], height[p])]
                        /\ pc' = [pc EXCEPT ![p] = "compose"]
                        /\ UNCHANGED err
                   ELSE /\ Fail(p, "AssertionError")
                        /\ UNCHANGED filter_string
    /\ UNCHANGED <<procs, cover_path, audio_path, arg_output, output_path, width, height,
                   cover_file, ffmpeg_args, compose_rc, calls, stdout>>
    /\ UNCHANGED roundVars

\* lines 117-146: build the arguments, spawn ffmpeg
ComposeCall(p) ==
    /\ pc[p] = "compose"
    /\ ffmpeg_args' = [ffmpeg_args EXCEPT ![p] =
            build_ffmpeg_args(cover_path[p], audio_path[p], width[p], height[p],
                              filter_string[p], output_path[p])]
    /\ calls' = [calls EXCEPT ![p] = Append(@, "ffmpeg")]
    /\ pc' = [pc EXCEPT ![p] = "composing"]
    /\ UNCHANGED <<procs, cover_path, audio_path, arg_output, output_path, width, height,
                   cover_file, probe_rc, geom, filter_string, compose_rc,
                   err, stdout>>
    /\ UNCHANGED roundVars

\* lines 146-147: ffmpeg exits; check_call returns or raises
ComposeReturn(p) ==
    /\ pc[p] = "composing"
    /\ \E rc \in ExitCodes :
        /\ compose_rc' = [compose_rc EXCEPT ![p] = rc]
        /\ IF check_call_ok(rc)
           THEN /\ pc' = [pc EXCEPT ![p] = "returned"]
                /\ UNCHANGED err
           ELSE Fail(p, "CalledProcessError")
    /\ UNCHANGED <<procs, cover_path, audio_path, arg_output, output_path, width, height,
                   cover_file, probe_rc, geom, filter_string, ffmpeg_args,
                   calls, stdout>>
    /\ UNCHANGED roundVars

\* line 196: print("OK:", output_path)
PrintOK(p) ==
    /\ pc[p] = "returned"
    /\ stdout' = [stdout EXCEPT ![p] = Append(@, [tag |-> "OK:", path |-> output_path[p]])]
    /\ pc' = [pc EXCEPT ![p] = "done"]
    /\ UNCHANGED <<procs, cover_path, audio_path, arg_output, output_path, width, height,
                   cover_file, probe_rc, geom, filter_string, ffmpeg_args,
                   compose_rc, calls, err>>
    /\ UNCHANGED roundVars

\* scaling_round called alone on its arguments
RoundCall ==
    /\ r_pc = "call"
    /\ r_result' = scaling_round(r_val, r_factor, r_max)
    /\ r_pc' = "done"
    /\ UNCHANGED <<r_val, r_factor, r_max>>
    /\ UNCHANGED procVars

-----------------------------------------------------------------------------
(* Specifications *)

InitRun(P) ==
    /\ procs = P
    /\ pc = [p \in P |-> "start"]
    /\ probe_rc = [p \in P |-> -1]
    /\ geom = [p \in P |-> NoGeom]
    /\ filter_string = [p \in P |-> NoFilter]
    /\ ffmpeg_args = [p \in P |-> NoArgs]
    /\ compose_rc = [p \in P |-> -1]
    /\ calls = [p \in P |-> <<>>]
    /\ err = [p \in P |-> ""]
    /\ stdout = [p \in P |-> <<>>]

RoundIdle ==
    /\ r_pc = "idle"
    /\ r_val = <<0, 1>>
    /\ r_factor = DefaultFactor
    /\ r_max = 0
    /\ r_result = 0

\* one conversion, any canvas, any cover file
Init ==
    /\ InitRun({1})
    /\ cover_path \in [procs -> CoverPaths]
    /\ audio_path \in [procs -> AudioPaths]
    /\ arg_output \in [procs -> OutputOptions]
    /\ output_path = arg_output
    /\ width \in [procs -> 1..MaxCanvas]
    /\ height \in [procs -> 1..MaxCanvas]
    /\ cover_file \in [procs -> ProbeOutputs]
    /\ RoundIdle

\* two conversions started from one working directory with the default
\* canvas, on distinct covers
InitPar ==
    /\ InitRun(Procs)
    /\ cover_path = [p \in procs |-> IF p = 1 THEN Cover1 ELSE Cover2]
    /\ audio_path \in [procs -> AudioPaths]
    /\ arg_output \in [procs -> OutputOptions]
    /\ output_path = arg_output
    /\ width = [p \in procs |-> DefaultWidth]
    /\ height = [p \in procs |-> DefaultHeight]
    /\ cover_file \in [procs -> ParProbeOutputs]
    /\ RoundIdle

\* scaling_round alone
InitRound ==
    /\ InitRun({})
    /\ cover_path = <<>>
    /\ audio_path = <<>>
    /\ arg_output = <<>>
    /\ output_path = <<>>
    /\ width = <<>>
    /\ height = <<>>
    /\ cover_file = <<>>
    /\ r_pc = "call"
    /\ r_val \in (0..MaxNum) \X (1..MaxDen)
    /\ r_factor \in (1..MaxFactor) \cup {DefaultFactor}
    /\ r_max \in 0..MaxMaxValue
    /\ r_result = 0

Next ==
    \/ \E p \in procs : ProbeCall(p)
    \/ \E p \in procs : ProbeReturn(p)
    \/ \E p \in procs : ComposeCall(p)
    \/ \E p \in procs : ComposeReturn(p)
    \/ \E p \in procs : PrintOK(p)

NextRound == RoundCall

Spec == Init /\ [][Next]_vars
SpecPar == InitPar /\ [][Next]_vars
SpecRound == InitRound /\ [][NextRound]_vars

-----------------------------------------------------------------------------
(* Properties *)

\* the probe gave a first stream with numeric width and height
Probed(p) ==
    /\ probe_rc[p] # -1
    /\ cover_file[p].kind = "streams"
    /\ cover_file[p].width.t = "number"
    /\ cover_file[p].height.t = "number"

CoverW(p) == cover_file[p].width.v
CoverH(p) == cover_file[p].height.v

\* get_cover_filter_string returned a filter string
FilterEmitted(p) == filter_string[p] # NoFilter

Spawned(p, tool) == \E i \in 1..Len(calls[p]) : calls[p][i] = tool

\* C1: for every positive image and canvas size the unrounded scaled
\* dimensions satisfy scaled_width <= canvas.width and
\* scaled_height <= canvas.height: the two assertions never fail.
C1_AssertsNeverFail ==
    \A p \in procs :
        Probed(p) =>
            /\ err[p] # "AssertionError"
            /\ RatLeqInt(geom[p].image_width, width[p])
            /\ RatLeqInt(geom[p].image_height, height[p])

\* C2: the scaled dimensions written into the filter string, after
\* rounding to multiples of 16, are within the canvas.
C2_RoundedFitsCanvas ==
    \A p \in procs :
        FilterEmitted(p) =>
            /\ filter_string[p].scale[1] <= width[p]
            /\ filter_string[p].scale[2] <= height[p]

SquareOnLandscape(p) ==
    /\ Probed(p)
    /\ CoverW(p) = CoverH(p)
    /\ width[p] > height[p]

\* C3 as stated: a square image on a landscape canvas takes the
\* fit-to-width branch, scaled_width being the canvas width.
C3_SquareFitsWidth ==
    \A p \in procs :
        SquareOnLandscape(p) =>
            /\ geom[p].branch = "width"
            /\ geom[p].image_width = <<width[p], 1>>

\* C3 amended: a square image on a landscape canvas takes the
\* fit-to-height branch: scaled_height is the canvas height and
\* scaled_width, derived from it, equals the canvas height too.
C3_SquareFitsHeight ==
    \A p \in procs :
        SquareOnLandscape(p) =>
            /\ geom[p].branch = "height"
            /\ geom[p].image_height = <<height[p], 1>>
            /\ geom[p].image_width[1] = height[p] * geom[p].image_width[2]

C3_Witness ==
    \E p \in procs : SquareOnLandscape(p) /\ FilterEmitted(p)

ExactAspect(p) ==
    /\ Probed(p)
    /\ CoverW(p) >= CoverH(p)
    /\ CoverW(p) * height[p] = CoverH(p) * width[p]

LowerMultiple(n, d, g) ==
    CHOOSE m \in {k * g : k \in 0..n} : m * d <= n /\ n < (m + g) * d

\* C5: with no max bound, scaling_round(v, g) is a non-negative multiple
\* of g, one of the two multiples bracketing v, the nearer one, upper on a
\* tie; a v that is a multiple of g is returned unchanged.
C5_RoundsToNearest ==
    (r_pc = "done" /\ r_max = 0) =>
        LET n == r_val[1]
            d == r_val[2]
            g == r_factor
            lower == LowerMultiple(n, d, g)
            upper == lower + g
            distLower == n - lower * d      \* d * (v - lower)
            distUpper == upper * d - n      \* d * (upper - v)
        IN  /\ r_result >= 0
            /\ r_result % g = 0
            /\ r_result \in {lower, upper}
            /\ distLower < distUpper => r_result = lower
            /\ distUpper < distLower => r_result = upper
            /\ distLower = distUpper => r_result = upper
            /\ distLower = 0 => r_result * d = n

C5_Witness ==
    /\ r_pc = "done"
    /\ r_max = 0
    /\ r_result > r_factor
    /\ 2 * r_val[1] = (2 * r_result - r_factor) * r_val[2]    \* a tie

\* C6: with max_value > 0, scaling_round returns a multiple of factor
\* that is not above max_value.
C6_NotAboveMax ==
    (r_pc = "done" /\ r_max > 0) =>
        /\ r_result % r_factor = 0
        /\ r_result <= r_max

\* C7: when the probe exits non-zero, or its output is unparseable, has no
\* stream entry, or lacks a numeric width or height, the run fails, ffmpeg
\* is never invoked and no success line is printed.
C7_UnusableProbeFails ==
    \A p \in procs :
        (probe_rc[p] # -1 /\ (probe_rc[p] # 0 \/ ~Probed(p))) =>
            /\ pc[p] = "failed"
            /\ ~Spawned(p, "ffmpeg")
            /\ stdout[p] = <<>>

\* two runs with no -o, distinct covers and distinct audio files, both
\* having invoked ffmpeg
BothComposing(p, q) ==
    /\ p # q
    /\ arg_output[p] = None /\ arg_output[q] = None
    /\ cover_path[p] # cover_path[q]
    /\ audio_path[p] # audio_path[q]
    /\ Spawned(p, "ffmpeg") /\ Spawned(q, "ffmpeg")

\* the audio file's name without directory and extension
StemOf(path) == (CHOOSE f \in AudioFiles : PathOf(f) = path).stem

\* C8 as stated: two such runs never pass the same output path to ffmpeg.
C8_DistinctOutputs ==
    \A p, q \in procs :
        BothComposing(p, q) => ffmpeg_args[p].output # ffmpeg_args[q].output

\* C8 amended: two such runs pass the same output path to ffmpeg exactly
\* when their audio files have the same name once directory and final
\* extension are removed.
C8_SameOutputIffSameStem ==
    \A p, q \in procs :
        BothComposing(p, q) =>
            (ffmpeg_args[p].output = ffmpeg_args[q].output
                <=> StemOf(audio_path[p]) = StemOf(audio_path[q]))

C8_Witness ==
    \E p, q \in procs :
        /\ BothComposing(p, q)
        /\ ffmpeg_args[p].output = ffmpeg_args[q].output
        /\ pc[p] = "composing" /\ pc[q] = "composing"

\* C9: ffprobe then ffmpeg, each at most once; ffmpeg only after the probe
\* returned and the assertions passed, with the filter string computed from
\* that probe among its arguments; the success line only after ffmpeg
\* exited 0, after exactly two invocations, and it names the output path.
C9_ProbeThenCompose ==
    \A p \in procs :
        /\ calls[p] \in {<<>>, <<"ffprobe">>, <<"ffprobe", "ffmpeg">>}
        /\ Spawned(p, "ffmpeg") =>
            /\ Probed(p)
            /\ RatLeqInt(geom[p].image_width, width[p])
            /\ RatLeqInt(geom[p].image_height, height[p])
            /\ FilterEmitted(p)
            /\ ffmpeg_args[p].filter = filter_string[p]
            /\ filter_string[p].pad[1] = width[p]
            /\ filter_string[p].pad[2] = height[p]
            /\ filter_string[p].scale =
                    << scaling_round(geom[p].image_width, DefaultFactor, 0),
                       scaling_round(geom[p].image_height, DefaultFactor, 0) >>
        /\ stdout[p] # <<>> =>
            /\ compose_rc[p] = 0
            /\ calls[p] = <<"ffprobe", "ffmpeg">>
            /\ stdout[p] = <<[tag |-> "OK:", path |-> ffmpeg_args[p].output]>>
        /\ pc[p] = "failed" => stdout[p] = <<>>

C9_Witness ==
    \E p \in procs :
        /\ pc[p] = "done"
        /\ stdout[p] # <<>>
        /\ calls[p] = <<"ffprobe", "ffmpeg">>

\* C10: every scaled dimension written into the scale stage is at least
\* one granularity unit (16) after rounding.
C10_RoundedPositive ==
    \A p \in procs :
        FilterEmitted(p) =>
            /\ filter_string[p].scale[1] >= DefaultFactor
            /\ filter_string[p].scale[2] >= DefaultFactor

=============================================================================
